---- MODULE Spec2Model ----
(***************************************************************************)
(* Lifecycle manager of the ephemeral-posts board (src/server.js).         *)
(*                                                                         *)
(* The persisted snapshot db.json, the uploads directory, the clock and    *)
(* the request handlers and maintenance pass that are in flight.  Every    *)
(* handler is an async function: it runs synchronously between two file    *)
(* operations and can be overtaken by other handlers at each of them.  An  *)
(* action is the completion of one file operation together with the        *)
(* synchronous stretch that follows it: a handler takes effect when its    *)
(* readDb completes, and the unlink calls of the cleanup that follows,     *)
(* which only remove files of posts the handler drops, are taken with it.  *)
(* Times are milliseconds, as in the code.                                 *)
(***************************************************************************)
EXTENDS Integers, Sequences, FiniteSets, TLC

(* ---- configuration of src/server.js ---- *)
MAX_TTL_MINUTES == 60
MIN_TTL_MINUTES == 1
ONE_MINUTE == 60000
ONE_HOUR == 3600000
ROOM_EMPTY_GRACE_MS == 60000
MaxContent == 500

(* ---- bounds of the model ---- *)
MaxTicks == 3
MaxReqs == 3

Handlers == {"h1"}
Sched == "sched"
Procs == Handlers \cup {Sched}

NoRoom == 0
NoFile == 0

(* the clock is observed at the instants where the comparisons of the code *)
(* change their answer: a minute on, one millisecond later, an hour on     *)
TickStep(i) == IF i % 3 = 1 THEN ONE_MINUTE ELSE IF i % 3 = 2 THEN 1 ELSE ONE_HOUR
(* req.body.ttlMinutes: absent, a field of a multipart form, which is a    *)
(* string, or a number of a JSON body, which express.json parses and       *)
(* multer passes by                                                        *)
Absent == [kind |-> "absent", n |-> 0]

Text(n) == [kind |-> "string", n |-> n]

Json(n) == [kind |-> "number", n |-> n]

(* request bodies: a text post of one minute, an image post of the default *)
(* sixty minutes, one form per rejection, and a JSON body that asks for    *)
(* zero minutes                                                            *)
PostInputs ==
  { [len |-> MaxContent, hasFile |-> FALSE, ttl |-> Text(MIN_TTL_MINUTES)],
    [len |-> 0, hasFile |-> TRUE, ttl |-> Absent],
    [len |-> 0, hasFile |-> FALSE, ttl |-> Text(MIN_TTL_MINUTES)],
    [len |-> MaxContent + 1, hasFile |-> TRUE, ttl |-> Text(MIN_TTL_MINUTES)],
    [len |-> MaxContent, hasFile |-> TRUE, ttl |-> Text(MIN_TTL_MINUTES - 1)],
    [len |-> MaxContent, hasFile |-> TRUE, ttl |-> Text(MAX_TTL_MINUTES + 1)],
    [len |-> MaxContent, hasFile |-> FALSE, ttl |-> Json(0)] }
WrongToken == 0

VARIABLES now, ticks, db, files, proc, listening, nextId, nextRoom, nreq, acked, gone,
          tbl, sq

vars == <<now, ticks, db, files, proc, listening, nextId, nextRoom, nreq, acked, gone, tbl, sq>>

(* ids a request can name: those given out so far and one never given out *)
RoomInputs == 0 .. nextRoom
IdInputs == 1 .. nextId

EmptyDb == [posts |-> <<>>, rooms |-> <<>>]

NoArg == [len |-> 0, file |-> NoFile, ttl |-> 0, raw |-> Absent, room |-> NoRoom, id |-> 0,
          token |-> 0]

(* the handler of the sqlite variant (src/unnamed/part_001) *)
SqIdle == [op |-> "none", pc |-> "idle", id |-> 0, token |-> 0, res |-> 0, out |-> {}]

Idle == [op |-> "none", pc |-> "idle", arg |-> NoArg, data |-> EmptyDb,
         res |-> 0, out |-> <<>>, seen |-> {}, dead |-> {}]

(* ---- helpers ---- *)
Range(s) == {s[i] : i \in 1 .. Len(s)}

EmptyFiles == [f \in {} |-> 0]

Unlink(fs, names) == [f \in (DOMAIN fs) \ names |-> fs[f]]

StoreFile(fs, name, t) == [f \in (DOMAIN fs) \cup {name} |-> IF f = name THEN t ELSE fs[f]]

DeletePostImage(fs, p) == IF p.image # NoFile THEN Unlink(fs, {p.image}) ELSE fs

Images(posts) == {posts[i].image : i \in 1 .. Len(posts)} \ {NoFile}

(* a cleanup that drops one expired post per call *)
CleanupExpiredPosts_FirstOnly(data, fs, t) ==
  LET expired == SelectSeq(data.posts, LAMBDA p : p.expires_at <= t)
      first == IF expired = <<>> THEN <<>> ELSE <<Head(expired)>>
      kept == SelectSeq(data.posts, LAMBDA p : expired = <<>> \/ p.id # Head(expired).id)
  IN [data |-> [data EXCEPT !.posts = kept], files |-> Unlink(fs, Images(first))]

(* a cleanup that deletes the files and keeps the records *)
CleanupExpiredPosts_KeepsRecords(data, fs, t) ==
  LET expired == SelectSeq(data.posts, LAMBDA p : p.expires_at <= t)
  IN [data |-> data, files |-> Unlink(fs, Images(expired))]

(* a cleanup that keeps a post at the instant it expires *)
CleanupExpiredPosts_Exclusive(data, fs, t) ==
  LET expired == SelectSeq(data.posts, LAMBDA p : p.expires_at < t)
      kept == SelectSeq(data.posts, LAMBDA p : p.expires_at >= t)
  IN [data |-> [data EXCEPT !.posts = kept], files |-> Unlink(fs, Images(expired))]

CleanupExpiredPosts(data, fs, t) ==
  LET expired == SelectSeq(data.posts, LAMBDA p : p.expires_at <= t)
      kept == SelectSeq(data.posts, LAMBDA p : p.expires_at > t)
  IN [data |-> [data EXCEPT !.posts = kept], files |-> Unlink(fs, Images(expired))]

GetRoomById(data, roomId) == SelectSeq(data.rooms, LAMBDA r : r.id = roomId)

(* a removal of the room that leaves its posts *)
DeleteRoomAndItsPosts_RoomOnly(data, fs, roomId) ==
  [data |-> [data EXCEPT !.rooms = SelectSeq(data.rooms, LAMBDA r : r.id # roomId)],
   files |-> fs]

DeleteRoomAndItsPosts(data, fs, roomId) ==
  LET inRoom == SelectSeq(data.posts, LAMBDA p : p.room_id = roomId)
  IN [data |-> [posts |-> SelectSeq(data.posts, LAMBDA p : p.room_id # roomId),
                rooms |-> SelectSeq(data.rooms, LAMBDA r : r.id # roomId)],
      files |-> Unlink(fs, Images(inRoom))]

LastActive(r) == IF r.last_active_at # 0 THEN r.last_active_at ELSE r.created_at

RoomToDelete(r, t) == LastActive(r) + ROOM_EMPTY_GRACE_MS < t

RECURSIVE DeleteRooms(_, _, _)
DeleteRooms(data, fs, toDelete) ==
  IF toDelete = <<>> THEN [data |-> data, files |-> fs]
  ELSE LET s == DeleteRoomAndItsPosts(data, fs, Head(toDelete).id)
       IN DeleteRooms(s.data, s.files, Tail(toDelete))

CleanupEmptyRooms(data, fs, t) ==
  DeleteRooms(data, fs, SelectSeq(data.rooms, LAMBDA r : RoomToDelete(r, t)))

(* a sweep that takes a file at the threshold *)
SweepOrphanUploads_AtThreshold(data, fs, t) ==
  LET referenced == Images(data.posts)
  IN Unlink(fs, {f \in DOMAIN fs : f \notin referenced /\ t - fs[f] >= ONE_HOUR})

SweepOrphanUploads(data, fs, t) ==
  LET referenced == Images(data.posts)
  IN Unlink(fs, {f \in DOMAIN fs : f \notin referenced /\ t - fs[f] > ONE_HOUR})

(* cleanupExpiredPosts followed by cleanupEmptyRooms, as every handler but *)
(* the heartbeat runs them on the snapshot it loaded                       *)
Cleanup(data, fs, t) ==
  LET a == CleanupExpiredPosts(data, fs, t)
  IN CleanupEmptyRooms(a.data, a.files, t)

(* rooms cleanupEmptyRooms deletes from data at time t *)
DeadRooms(data, t) == {r.id : r \in {q \in Range(data.rooms) : RoomToDelete(q, t)}}

(* posts the cascade of the dead rooms removes from data at time t *)
Cascaded(data, t) ==
  LET a == CleanupExpiredPosts(data, EmptyFiles, t)
      b == CleanupEmptyRooms(a.data, EmptyFiles, t)
  IN {p.id : p \in Range(a.data.posts)} \ {p.id : p \in Range(b.data.posts)}

Init ==
  /\ now = 0
  /\ ticks = 0
  /\ db = EmptyDb
  /\ files = EmptyFiles
  /\ proc = [p \in Procs |-> IF p = Sched THEN [Idle EXCEPT !.op = "maint"] ELSE Idle]
  /\ listening = FALSE
  /\ nextId = 1
  /\ nextRoom = 1
  /\ nreq = 0
  /\ acked = {}
  /\ gone = {}
  /\ tbl = {}
  /\ sq = SqIdle

Tick ==
  /\ ticks < MaxTicks
  /\ now' = now + TickStep(ticks + 1)
  /\ ticks' = ticks + 1
  /\ UNCHANGED <<db, files, proc, listening, nextId, nextRoom, acked, gone, nreq, tbl, sq>>

(* a request is taken by the first free handler *)
Free(h) == /\ listening
           /\ proc[h].pc = "idle"
           /\ (h = "h1" \/ proc["h1"].pc # "idle")
           /\ nreq < MaxReqs
           /\ nreq' = nreq + 1

At(p, op, pc) == proc[p].op = op /\ proc[p].pc = pc

Set(p, r) == proc' = [proc EXCEPT ![p] = r]

Respond(p, code) == [p EXCEPT !.pc = "done", !.res = code, !.data = EmptyDb, !.dead = {}]

(* ---- POST /posts ---- *)
(* nanoid(16): a value of its own for every post, and no other value of    *)
(* the record                                                              *)
NanoidToken(id) == 0 - id

(* the path multer stored the upload under; image is the name the public   *)
(* reference /uploads/<name> carries                                       *)
ImagePath(file) == IF file = NoFile THEN <<>> ELSE <<"UPLOADS_DIR", file>>

NewPost(a, t) ==
  [id |-> a.id, room_id |-> a.room, len |-> a.len, image |-> a.file,
   image_path |-> ImagePath(a.file), delete_token |-> NanoidToken(a.id),
   created_at |-> t, expires_at |-> t + a.ttl * ONE_MINUTE]

TouchRoom(data, roomId, t) ==
  [data EXCEPT !.rooms = [i \in 1 .. Len(data.rooms) |->
     IF data.rooms[i].id = roomId THEN [data.rooms[i] EXCEPT !.last_active_at = t]
     ELSE data.rooms[i]]]

(* req.body.ttlMinutes ? ... : ..., the test of a JavaScript value: a     *)
(* string other than the empty one is true, the number 0 is false          *)
Truthy(raw) == raw.kind = "string" \/ (raw.kind = "number" /\ raw.n # 0)

TtlMinutes(raw) == IF Truthy(raw) THEN raw.n ELSE MAX_TTL_MINUTES

Invalid(a) ==
  \/ a.len = 0 /\ a.file = NoFile
  \/ a.len > MaxContent
  \/ a.ttl < MIN_TTL_MINUTES
  \/ a.ttl > MAX_TTL_MINUTES

(* an unshift that appends *)
Unshift_Push(list, x) == list \o <<x>>

Unshift(list, x) == <<x>> \o list

(* multer has stored the upload and the handler is entered *)
StartCreatePost(h) ==
  /\ Free(h)
  /\ \E b \in PostInputs, room \in RoomInputs :
       /\ files' = IF b.hasFile THEN StoreFile(files, nextId, now) ELSE files
       /\ Set(h, [Idle EXCEPT !.op = "createPost", !.pc = "load",
                   !.arg = [len |-> b.len, file |-> IF b.hasFile THEN nextId ELSE NoFile,
                            ttl |-> TtlMinutes(b.ttl), raw |-> b.ttl, room |-> room,
                            id |-> nextId, token |-> 0]])
  /\ nextId' = nextId + 1
  /\ UNCHANGED <<now, ticks, db, listening, nextRoom, acked, gone, tbl, sq>>

CreatePostReject(h) ==
  /\ At(h, "createPost", "load")
  /\ Invalid(proc[h].arg)
  /\ files' = Unlink(files, {proc[h].arg.file})
  /\ Set(h, Respond(proc[h], 400))
  /\ UNCHANGED <<now, ticks, db, listening, nextId, nextRoom, acked, gone, nreq, tbl, sq>>

CreatePostLoad(h) ==
  /\ At(h, "createPost", "load")
  /\ ~Invalid(proc[h].arg)
  /\ LET a == proc[h].arg
         c == Cleanup(db, files, now)
     IN /\ gone' = gone \cup Cascaded(db, now)
        /\ IF a.room # NoRoom /\ GetRoomById(c.data, a.room) = <<>>
           THEN /\ files' = Unlink(c.files, {a.file})
                /\ Set(h, Respond(proc[h], 404))
           ELSE LET d == IF a.room # NoRoom THEN TouchRoom(c.data, a.room, now) ELSE c.data
                IN /\ files' = c.files
                   /\ Set(h, [proc[h] EXCEPT !.pc = "write",
                          !.data = [d EXCEPT !.posts = Unshift(d.posts, NewPost(a, now))]])
  /\ UNCHANGED <<now, ticks, db, listening, nextId, nextRoom, acked, nreq, tbl, sq>>

(* the answer of a successful POST /posts *)
Created(post) == [id |-> post.id, deleteToken |-> post.delete_token, expiresAt |-> post.expires_at]

CreatePostWrite(h) ==
  /\ At(h, "createPost", "write")
  /\ db' = proc[h].data
  /\ acked' = acked \cup {Head(proc[h].data.posts)}
  /\ Set(h, [Respond(proc[h], 200) EXCEPT !.out = <<Created(Head(proc[h].data.posts))>>])
  /\ UNCHANGED <<now, ticks, files, listening, nextId, nextRoom, gone, nreq, tbl, sq>>

(* ---- GET /posts ---- *)
(* a projection that passes the whole record on *)
Public_Whole(p) == p

Public(p) == [id |-> p.id, len |-> p.len, image |-> p.image,
              created_at |-> p.created_at, expires_at |-> p.expires_at]

(* a feed that does not filter *)
Feed_All(data, roomId) == [i \in 1 .. Len(data.posts) |-> Public(data.posts[i])]

Feed(data, roomId) ==
  LET filtered == SelectSeq(data.posts, LAMBDA p : p.room_id = roomId)
  IN [i \in 1 .. Len(filtered) |-> Public(filtered[i])]

ListLoad(h) ==
  /\ Free(h)
  /\ LET c == Cleanup(db, files, now)
     IN /\ gone' = gone \cup Cascaded(db, now)
        /\ files' = c.files
        /\ \E room \in RoomInputs :
             Set(h, [Idle EXCEPT !.op = "listPosts", !.pc = "write", !.arg.room = room,
                     !.data = c.data, !.seen = {p.id : p \in acked}])
  /\ UNCHANGED <<now, ticks, db, listening, nextId, nextRoom, acked, tbl, sq>>

ListWrite(h) ==
  /\ At(h, "listPosts", "write")
  /\ db' = proc[h].data
  /\ LET a == proc[h].arg IN
       IF a.room # NoRoom /\ GetRoomById(proc[h].data, a.room) = <<>>
       THEN Set(h, Respond(proc[h], 404))
       ELSE Set(h, [Respond(proc[h], 200) EXCEPT !.out = Feed(proc[h].data, a.room)])
  /\ UNCHANGED <<now, ticks, files, listening, nextId, nextRoom, acked, gone, nreq, tbl, sq>>

(* ---- DELETE /posts/:id ---- *)
(* a token check that lets every token through *)
TokenMatches_Any(post, token) == TRUE

TokenMatches(post, token) == post.delete_token = token

FindIndex(posts, id) ==
  IF \E i \in 1 .. Len(posts) : posts[i].id = id
  THEN CHOOSE i \in 1 .. Len(posts) : posts[i].id = id /\ \A j \in 1 .. i - 1 : posts[j].id # id
  ELSE 0

Splice(posts, index) == [i \in 1 .. Len(posts) - 1 |-> IF i < index THEN posts[i] ELSE posts[i + 1]]

DeleteLoad(h) ==
  /\ Free(h)
  /\ LET c == Cleanup(db, files, now)
     IN /\ gone' = gone \cup Cascaded(db, now)
        /\ files' = c.files
        /\ \E id \in IdInputs : \E token \in {WrongToken, NanoidToken(id)} :
             LET index == FindIndex(c.data.posts, id)
                 p == [Idle EXCEPT !.op = "deletePost", !.arg.id = id, !.arg.token = token]
             IN IF index = 0 THEN Set(h, Respond(p, 404))
                ELSE IF ~TokenMatches(c.data.posts[index], token) THEN Set(h, Respond(p, 403))
                ELSE Set(h, [p EXCEPT !.pc = "unlink", !.data = c.data])
  /\ UNCHANGED <<now, ticks, db, listening, nextId, nextRoom, acked, tbl, sq>>

DeleteUnlink(h) ==
  /\ At(h, "deletePost", "unlink")
  /\ LET posts == proc[h].data.posts
         index == FindIndex(posts, proc[h].arg.id)
     IN /\ files' = DeletePostImage(files, posts[index])
        /\ Set(h, [proc[h] EXCEPT !.pc = "write", !.data.posts = Splice(posts, index)])
  /\ UNCHANGED <<now, ticks, db, listening, nextId, nextRoom, acked, gone, nreq, tbl, sq>>

DeleteWrite(h) ==
  /\ At(h, "deletePost", "write")
  /\ db' = proc[h].data
  /\ gone' = gone \cup {proc[h].arg.id}
  /\ Set(h, Respond(proc[h], 200))
  /\ UNCHANGED <<now, ticks, files, listening, nextId, nextRoom, acked, nreq, tbl, sq>>

(* ---- POST /rooms ---- *)
NewRoom(roomId, t) == [id |-> roomId, created_at |-> t, last_active_at |-> t]

CreateRoomLoad(h) ==
  /\ Free(h)
  /\ LET c == Cleanup(db, files, now)
     IN /\ gone' = gone \cup Cascaded(db, now)
        /\ files' = c.files
        /\ Set(h, [Idle EXCEPT !.op = "createRoom", !.pc = "write", !.arg.room = nextRoom,
               !.data = [c.data EXCEPT !.rooms = Unshift(c.data.rooms, NewRoom(nextRoom, now))]])
  /\ nextRoom' = nextRoom + 1
  /\ UNCHANGED <<now, ticks, db, listening, nextId, acked, tbl, sq>>

CreateRoomWrite(h) ==
  /\ At(h, "createRoom", "write")
  /\ db' = proc[h].data
  /\ Set(h, Respond(proc[h], 200))
  /\ UNCHANGED <<now, ticks, files, listening, nextId, nextRoom, acked, gone, nreq, tbl, sq>>

(* ---- POST /rooms/:id/ping ---- *)
PingLoad(h) ==
  /\ Free(h)
  /\ \E room \in 1 .. nextRoom :
       LET p == [Idle EXCEPT !.op = "ping", !.arg.room = room]
       IN IF GetRoomById(db, room) = <<>>
          THEN Set(h, Respond(p, 404))
          ELSE Set(h, [p EXCEPT !.pc = "write", !.data = TouchRoom(db, room, now)])
  /\ UNCHANGED <<now, ticks, db, files, listening, nextId, nextRoom, acked, gone, tbl, sq>>

PingWrite(h) ==
  /\ At(h, "ping", "write")
  /\ db' = proc[h].data
  /\ Set(h, Respond(proc[h], 200))
  /\ UNCHANGED <<now, ticks, files, listening, nextId, nextRoom, acked, gone, nreq, tbl, sq>>

(* the response is sent and the handler is free again *)
Return(h) ==
  /\ proc[h].pc = "done"
  /\ Set(h, Idle)
  /\ UNCHANGED <<now, ticks, db, files, listening, nextId, nextRoom, acked, gone, nreq, tbl, sq>>

(* ---- maintenance: once at startup, then on the interval ---- *)
MaintLoad ==
  /\ At(Sched, "maint", "idle")
  /\ LET c == Cleanup(db, files, now)
     IN /\ gone' = gone \cup Cascaded(db, now)
        /\ files' = c.files
        /\ Set(Sched, [proc[Sched] EXCEPT !.pc = "sweep", !.data = c.data,
                                         !.dead = DeadRooms(db, now),
                                         !.seen = {}, !.res = 0])
  /\ UNCHANGED <<now, ticks, db, listening, nextId, nextRoom, acked, nreq, tbl, sq>>

MaintSweep ==
  /\ At(Sched, "maint", "sweep")
  /\ files' = SweepOrphanUploads(proc[Sched].data, files, now)
  /\ Set(Sched, [proc[Sched] EXCEPT !.pc = "write"])
  /\ UNCHANGED <<now, ticks, db, listening, nextId, nextRoom, acked, gone, nreq, tbl, sq>>

(* app.listen follows the startup pass *)
MaintWrite ==
  /\ At(Sched, "maint", "write")
  /\ db' = proc[Sched].data
  /\ listening' = TRUE
  /\ Set(Sched, [proc[Sched] EXCEPT !.pc = "idle", !.data = EmptyDb, !.dead = {}])
  /\ UNCHANGED <<now, ticks, files, nextId, nextRoom, acked, gone, nreq, tbl, sq>>

Maint == MaintLoad \/ MaintSweep \/ MaintWrite

Request(h) ==
  \/ StartCreatePost(h) \/ CreatePostReject(h) \/ CreatePostLoad(h) \/ CreatePostWrite(h)
  \/ ListLoad(h) \/ ListWrite(h)
  \/ DeleteLoad(h) \/ DeleteUnlink(h) \/ DeleteWrite(h)
  \/ CreateRoomLoad(h) \/ CreateRoomWrite(h)
  \/ PingLoad(h) \/ PingWrite(h)
  \/ Return(h)

Next == Tick \/ Maint \/ \E h \in Handlers : Request(h)

Spec == Init /\ [][Next]_vars

(* the executions in which no two operations overlap *)
InFlight(pr) == {p \in Procs : pr[p].pc \notin {"idle", "done"}}

NextSerial == Next /\ Cardinality(InFlight(proc')) <= 1

SpecSerial == Init /\ [][NextSerial]_vars

(***************************************************************************)
(* The process is started on the db.json and the uploads directory an      *)
(* earlier run has left: posts and a room created at time 0, with or       *)
(* without an upload no post refers to.                                    *)
(***************************************************************************)
RestartPosts ==
  << NewPost([NoArg EXCEPT !.id = 3, !.file = 3, !.ttl = MAX_TTL_MINUTES], 0),
     NewPost([NoArg EXCEPT !.id = 2, !.file = 2, !.ttl = MAX_TTL_MINUTES, !.room = 1], 0),
     NewPost([NoArg EXCEPT !.id = 1, !.len = MaxContent, !.ttl = MIN_TTL_MINUTES], 0) >>

RestartRoom == NewRoom(1, 0)

Subseq(seq, keep) == SelectSeq(seq, LAMBDA p : p.id \in keep)

RestartStates ==
  { [db |-> [posts |-> Subseq(RestartPosts, keep), rooms |-> rooms],
     files |-> [f \in ((keep \ {1}) \cup orphan) |-> 0]] :
      keep \in SUBSET {1, 2, 3}, rooms \in {<<>>, <<RestartRoom>>}, orphan \in {{}, {4}} }

RECURSIVE TimeAt(_)
TimeAt(k) == IF k = 0 THEN 0 ELSE TimeAt(k - 1) + TickStep(k)

InitRestart ==
  /\ \E s \in RestartStates :
       /\ \A p \in Range(s.db.posts) : p.room_id # NoRoom => s.db.rooms # <<>>
       /\ db = s.db
       /\ files = s.files
       /\ acked = Range(s.db.posts)
  /\ proc = [p \in Procs |-> IF p = Sched THEN [Idle EXCEPT !.op = "maint"] ELSE Idle]
  /\ listening = FALSE
  /\ nextId = 5
  /\ nextRoom = 2
  /\ nreq = 0
  /\ gone = {}
  /\ tbl = {}
  /\ sq = SqIdle

(* maintenance passes alone, at one instant *)
InitMaint ==
  /\ \E k \in 0 .. MaxTicks : ticks = k /\ now = TimeAt(k)
  /\ InitRestart

SpecMaint == InitMaint /\ [][Maint]_vars

(* the scheduler and the clock alone: no request is ever issued *)
InitLive == now = 0 /\ ticks = 0 /\ InitRestart

NextLive == Tick \/ Maint

SpecLive == InitLive /\ [][NextLive]_vars /\ WF_vars(Tick) /\ WF_vars(Maint)

(***************************************************************************)
(* The process is started late: on a post of the main feed and a post of a *)
(* room whose uploads took a minute to arrive, so that the files are older *)
(* than the posts, a text post, and uploads no post refers to, at the      *)
(* instants around the orphan threshold.  Maintenance passes alone.        *)
(***************************************************************************)
SweepPosts ==
  << NewPost([NoArg EXCEPT !.id = 3, !.file = 3, !.ttl = MAX_TTL_MINUTES, !.room = 1],
             ONE_MINUTE + 1),
     NewPost([NoArg EXCEPT !.id = 1, !.file = 1, !.ttl = MAX_TTL_MINUTES], ONE_MINUTE + 1),
     NewPost([NoArg EXCEPT !.id = 2, !.len = MaxContent, !.ttl = MIN_TTL_MINUTES], 0) >>

(* when the uploads were written: those of the posts and of orphan 4 at 0, *)
(* orphan 5 a minute later                                                 *)
SweepMtime(f) == IF f = 5 THEN ONE_MINUTE ELSE 0

SweepInstants == {0, ONE_HOUR, ONE_HOUR + 1, ONE_HOUR + ONE_MINUTE, ONE_HOUR + ONE_MINUTE + 1}

SweepStates ==
  { [db |-> [posts |-> Subseq(SweepPosts, keep), rooms |-> rooms],
     files |-> [f \in ((keep \ {2}) \cup orphan) |-> SweepMtime(f)]] :
      keep \in SUBSET {1, 2, 3}, orphan \in SUBSET {4, 5},
      rooms \in {<<>>, <<NewRoom(1, 0)>>, <<NewRoom(1, ONE_HOUR + 1)>>} }

InitSweep ==
  /\ now \in SweepInstants
  /\ ticks = MaxTicks
  /\ \E s \in SweepStates :
       /\ \A p \in Range(s.db.posts) : p.room_id # NoRoom => s.db.rooms # <<>>
       /\ \A p \in Range(s.db.posts) : p.created_at <= now
       /\ \A r \in Range(s.db.rooms) : r.created_at <= now
       /\ \A f \in DOMAIN s.files : s.files[f] <= now
       /\ db = s.db
       /\ files = s.files
       /\ acked = Range(s.db.posts)
  /\ proc = [p \in Procs |-> IF p = Sched THEN [Idle EXCEPT !.op = "maint"] ELSE Idle]
  /\ listening = FALSE
  /\ nextId = 6
  /\ nextRoom = 2
  /\ nreq = 0
  /\ gone = {}
  /\ tbl = {}
  /\ sq = SqIdle

SpecSweep == InitSweep /\ [][Maint]_vars

(***************************************************************************)
(* File operations that fail.  In a maintenance pass an unlink that fails  *)
(* is swallowed by safeUnlink, a readdir that fails ends the sweep, and a  *)
(* writeFile that fails rejects runMaintenance into the catch of the       *)
(* schedule, which calls console.error.  The scheduler records in seen the *)
(* operations that failed in the pass and in res whether it has logged.    *)
(***************************************************************************)
Logged == 500

MaintLoadUnlinkFail ==
  /\ At(Sched, "maint", "idle")
  /\ Cleanup(db, files, now).files # files
  /\ gone' = gone \cup Cascaded(db, now)
  /\ Set(Sched, [proc[Sched] EXCEPT !.pc = "sweep", !.data = Cleanup(db, files, now).data,
                                   !.dead = DeadRooms(db, now),
                                   !.seen = {"unlink"}, !.res = 0])
  /\ UNCHANGED <<now, ticks, db, files, listening, nextId, nextRoom, acked, nreq, tbl, sq>>

MaintSweepFail ==
  /\ At(Sched, "maint", "sweep")
  /\ Set(Sched, [proc[Sched] EXCEPT !.pc = "write", !.seen = @ \cup {"readdir"}])
  /\ UNCHANGED <<now, ticks, db, files, listening, nextId, nextRoom, acked, gone, nreq, tbl, sq>>

(* the catch of the startup pass and of the interval *)
Caught(p) == [p EXCEPT !.pc = "idle", !.res = Logged, !.data = EmptyDb, !.dead = {},
                       !.seen = @ \cup {"write"}]

MaintWriteFail ==
  /\ At(Sched, "maint", "write")
  /\ listening' = TRUE
  /\ Set(Sched, Caught(proc[Sched]))
  /\ UNCHANGED <<now, ticks, db, files, nextId, nextRoom, acked, gone, nreq, tbl, sq>>

MaintFault == MaintLoadUnlinkFail \/ MaintSweepFail \/ MaintWriteFail

NextFault == Tick \/ Maint \/ MaintFault

SpecFault == InitLive /\ [][NextFault]_vars /\ WF_vars(Tick) /\ WF_vars(Maint \/ MaintFault)

(***************************************************************************)
(* A writeFile that fails in a request handler rejects the await of        *)
(* writeDb.  POST /posts runs in a try block whose catch answers 400.  The *)
(* other handlers have no try block: the promise of the async handler      *)
(* rejects, and what becomes of it is the framework's business: Express 5  *)
(* passes it to its error handler, which answers 500, and Express 4 drops  *)
(* the promise, so that the rejection is unhandled and no answer is sent.  *)
(***************************************************************************)
Rejected(p) ==
  IF p.op = "createPost" THEN {Respond(p, 400)}
  ELSE {Respond(p, 500), [p EXCEPT !.pc = "unhandled", !.data = EmptyDb]}

WriteFail(h) ==
  /\ proc[h].pc = "write"
  /\ \E r \in Rejected(proc[h]) : Set(h, r)
  /\ UNCHANGED <<now, ticks, db, files, listening, nextId, nextRoom, acked, gone, nreq, tbl, sq>>

NextWriteFail ==
  /\ Next \/ MaintWriteFail \/ \E h \in Handlers : WriteFail(h)
  /\ Cardinality(InFlight(proc')) <= 1

SpecWriteFail == Init /\ [][NextWriteFail]_vars

(***************************************************************************)
(* The sqlite variant of the server, src/unnamed/part_001: one posts table *)
(* with a fixed time to live of one hour, no rooms and no media.  Every    *)
(* statement runs on its own; the handler continues in its callback.       *)
(***************************************************************************)
SqContentLens == {0, MaxContent, MaxContent + 1}

SqRow(id, len, t) ==
  [id |-> id, len |-> len, delete_token |-> NanoidToken(id), created_at |-> t,
   expires_at |-> t + ONE_HOUR]

SqFree == sq.pc = "idle" /\ nreq < MaxReqs /\ nreq' = nreq + 1

SqCreatePost ==
  /\ SqFree
  /\ \E len \in SqContentLens :
       IF len = 0 \/ len > MaxContent
       THEN /\ sq' = [SqIdle EXCEPT !.op = "createPost", !.pc = "done", !.res = 400]
            /\ UNCHANGED <<tbl, nextId>>
       ELSE /\ tbl' = tbl \cup {SqRow(nextId, len, now)}
            /\ nextId' = nextId + 1
            /\ sq' = [SqIdle EXCEPT !.op = "createPost", !.pc = "done", !.res = 200, !.id = nextId,
                                    !.token = NanoidToken(nextId)]
  /\ UNCHANGED <<now, ticks, db, files, proc, listening, nextRoom, acked, gone>>

SqPublic(row) == [id |-> row.id, len |-> row.len, created_at |-> row.created_at,
                  expires_at |-> row.expires_at]

SqGetPosts ==
  /\ SqFree
  /\ sq' = [SqIdle EXCEPT !.op = "listPosts", !.pc = "done", !.res = 200,
                          !.out = {SqPublic(row) : row \in {r \in tbl : r.expires_at > now}}]
  /\ UNCHANGED <<now, ticks, db, files, proc, listening, nextId, nextRoom, acked, gone, tbl>>

(* db.get and its callback *)
SqDeleteGet ==
  /\ SqFree
  /\ \E id \in IdInputs : \E token \in {WrongToken, NanoidToken(id)} :
       LET rows == {r \in tbl : r.id = id}
           call == [SqIdle EXCEPT !.op = "deletePost", !.id = id, !.token = token]
       IN IF rows = {} THEN sq' = [call EXCEPT !.pc = "done", !.res = 404]
          ELSE LET row == CHOOSE r \in rows : TRUE
               IN IF row.delete_token # token THEN sq' = [call EXCEPT !.pc = "done", !.res = 403]
                  ELSE IF now > row.expires_at THEN sq' = [call EXCEPT !.pc = "done", !.res = 403]
                  ELSE sq' = [call EXCEPT !.pc = "run"]
  /\ UNCHANGED <<now, ticks, db, files, proc, listening, nextId, nextRoom, acked, gone, tbl>>

(* db.run of the DELETE and its callback *)
SqDeleteRun ==
  /\ sq.pc = "run"
  /\ tbl' = {r \in tbl : r.id # sq.id}
  /\ sq' = [sq EXCEPT !.pc = "done", !.res = 200]
  /\ UNCHANGED <<now, ticks, db, files, proc, listening, nextId, nextRoom, nreq, acked, gone>>

SqReturn ==
  /\ sq.pc = "done"
  /\ sq' = SqIdle
  /\ UNCHANGED <<now, ticks, db, files, proc, listening, nextId, nextRoom, nreq, acked, gone, tbl>>

(* the interval that deletes the expired rows *)
SqCleanup ==
  /\ tbl' = {r \in tbl : ~(r.expires_at <= now)}
  /\ UNCHANGED <<now, ticks, db, files, proc, listening, nextId, nextRoom, nreq, acked, gone, sq>>

NextSqlite == Tick \/ SqCreatePost \/ SqGetPosts \/ SqDeleteGet \/ SqDeleteRun \/ SqReturn \/ SqCleanup

SpecSqlite == Init /\ [][NextSqlite]_vars

(***************************************************************************)
(* Properties                                                              *)
(***************************************************************************)
Posts(data) == Range(data.posts)

Rooms(data) == Range(data.rooms)

Quiescent == \A p \in Procs : proc[p].pc \in {"idle", "done"}

(* between its readDb and its writeDb *)
InPhase(p) == proc[p].pc \in {"unlink", "sweep", "write"}

(* dead as the specification defines it *)
SpecDead(r, t) == t - LastActive(r) >= ROOM_EMPTY_GRACE_MS

(* C1: no two operations are between their readDb and their writeDb at   *)
(* the same time: while one operation has loaded the snapshot and not yet  *)
(* persisted it, no other operation has loaded it either.                  *)
C1_NoInterleaving == \A p, q \in Procs : InPhase(p) /\ InPhase(q) => p = q

(* C2: a listPosts that started after createPost acknowledged post P, and  *)
(* answers before P expires, includes P in the answer for P's feed, unless *)
(* P was removed by an authorized deletePost or by the cascade of its room *)
C2_ListIncludesCreated ==
  \A h \in Handlers :
    (proc[h].op = "listPosts" /\ proc[h].pc = "done") =>
      \A P \in acked :
        (/\ P.id \in proc[h].seen
         /\ P.room_id = proc[h].arg.room
         /\ P.id \notin gone
         /\ now < P.expires_at)
        => /\ proc[h].res = 200
           /\ \E i \in 1 .. Len(proc[h].out) : proc[h].out[i].id = P.id

(* C3: the media file of every active post of the persisted snapshot is in *)
(* the uploads directory.  Stated for the states in which no operation is  *)
(* in flight, and checked on the executions without overlap, where an      *)
(* operation that deleted a file has had its chance to persist.            *)
C3_ActiveMediaStored ==
  Quiescent =>
    \A p \in Posts(db) : (p.expires_at > now /\ p.image # NoFile) => p.image \in DOMAIN files

(* C4: when a maintenance pass that found room R dead persists, the        *)
(* snapshot it leaves holds neither R nor a post of R, and no media file   *)
(* of a post of R that was persisted remains in the uploads directory.     *)
C4_CascadeComplete ==
  [][(proc[Sched].pc = "write" /\ proc'[Sched].pc = "idle") =>
       \A r \in proc[Sched].dead :
         /\ GetRoomById(db', r) = <<>>
         /\ \A p \in Posts(db') : p.room_id # r
         /\ \A p \in Posts(db) : (p.room_id = r /\ p.image # NoFile) => p.image \notin DOMAIN files']_vars

(* a deletePost call is taken up in this step by handler h *)
DeleteCall(h) == proc[h].pc = "idle" /\ proc'[h].op = "deletePost"

MediaKept(p) == p.image \in DOMAIN files => p.image \in DOMAIN files'

(* C5 as claimed: for every post P present and active in the snapshot,     *)
(* deletePost(P.id, token) with a token other than P's answers 403 and     *)
(* leaves P in the persisted snapshot and P's media in the uploads         *)
(* directory.                                                              *)
C5_WrongTokenForbidden_Claimed ==
  [][\A h \in Handlers : DeleteCall(h) =>
       \A P \in Posts(db) :
         (P.id = proc'[h].arg.id /\ P.expires_at > now /\ proc'[h].arg.token # P.delete_token)
         => (proc'[h].res = 403 /\ db' = db /\ MediaKept(P))]_vars

(* C5 amended: the same for every post P that is active and is not in a    *)
(* dead room, that is, in the main feed or in a room of the snapshot with  *)
(* now - lastActiveAt < grace.                                             *)
C5_WrongTokenForbidden ==
  [][\A h \in Handlers : DeleteCall(h) =>
       \A P \in Posts(db) :
         (/\ P.id = proc'[h].arg.id
          /\ P.expires_at > now
          /\ proc'[h].arg.token # P.delete_token
          /\ \/ P.room_id = NoRoom
             \/ \E r \in Rooms(db) : r.id = P.room_id /\ ~SpecDead(r, now))
         => (proc'[h].res = 403 /\ db' = db /\ MediaKept(P))]_vars

C5_Witness ==
  \E h \in Handlers :
    /\ proc[h].op = "deletePost" /\ proc[h].pc = "done" /\ proc[h].res = 403
    /\ \E P \in Posts(db) : /\ P.id = proc[h].arg.id
                            /\ P.image \in DOMAIN files
                            /\ P.expires_at > now

(* C6: deletePost on a post whose expiresAt <= now answers 404, whatever   *)
(* the token and whether or not a cleanup has removed the record, in the   *)
(* sqlite variant of the server.                                           *)
C6_ExpiredIsNotFound ==
  [][(sq.pc = "idle" /\ sq'.op = "deletePost") =>
       \A row \in tbl :
         (row.id = sq'.id /\ row.expires_at <= now) => (sq'.pc = "done" /\ sq'.res = 404)]_vars

(* C6 in src/server.js: the same of the handler of DELETE /posts/:id       *)
C6_ExpiredIsNotFound_ServerJs ==
  [][\A h \in Handlers : DeleteCall(h) =>
       \A P \in Posts(db) :
         (P.id = proc'[h].arg.id /\ P.expires_at <= now)
         => (proc'[h].pc = "done" /\ proc'[h].res = 404)]_vars

(* C7: a heartbeat for a room whose grace period has run out answers 404,  *)
(* also when no cleanup has removed the room yet.  Stated for the rooms    *)
(* strictly past the grace period, where the code's own test calls the     *)
(* room dead as well.                                                      *)
C7_HeartbeatRejectsDead ==
  [][\A h \in Handlers :
       (proc[h].pc = "idle" /\ proc'[h].op = "ping") =>
         \A r \in Rooms(db) :
           (r.id = proc'[h].arg.room /\ now - LastActive(r) > ROOM_EMPTY_GRACE_MS)
           => (proc'[h].pc = "done" /\ proc'[h].res = 404)]_vars

(* C8: createPost into a dead or missing room answers 404, persists no     *)
(* post and leaves no upload of the request behind; a createPost rejected  *)
(* for its content or ttl leaves no upload behind either.                  *)
C8_RejectedPostLeavesNothing ==
  [][\A h \in Handlers :
       (proc[h].op = "createPost" /\ proc[h].pc = "load" /\ proc'[h].pc # "load") =>
         LET a == proc[h].arg IN
         /\ Invalid(a) => (proc'[h].res = 400 /\ a.file \notin DOMAIN files' /\ db' = db)
         /\ (/\ ~Invalid(a)
             /\ a.room # NoRoom
             /\ \A r \in Rooms(db) : r.id = a.room => SpecDead(r, now))
            => (/\ proc'[h].pc = "done"
                /\ proc'[h].res = 404
                /\ a.file \notin DOMAIN files'
                /\ db' = db)]_vars

(* C9: once a maintenance pass has persisted, further passes at the same   *)
(* instant and with nothing else running change neither the persisted      *)
(* snapshot nor the uploads directory.                                     *)
C9_MaintenanceIdempotent == [][listening => (db' = db /\ files' = files)]_vars

(* a second pass is about to persist after a first one that removed a post *)
C9_Witness ==
  /\ listening
  /\ proc[Sched].pc = "write"
  /\ \E P \in acked : P \notin Posts(db) /\ P.image # NoFile /\ P.image \notin DOMAIN files

(* C10: with the scheduler running and the clock advancing, and without    *)
(* any request, every expired post of the persisted snapshot is eventually *)
(* removed from it and its media file deleted, and every dead room is      *)
(* eventually removed.                                                     *)
C10_ExpiresWithoutRequests ==
  /\ \A i \in 1 .. Len(RestartPosts) :
       (RestartPosts[i] \in Posts(db) /\ now >= RestartPosts[i].expires_at)
         ~> (RestartPosts[i] \notin Posts(db) /\ RestartPosts[i].image \notin DOMAIN files)
  /\ (\E r \in Rooms(db) : SpecDead(r, now)) ~> (db.rooms = <<>>)

(* an image post of the main feed is gone after its expiry, file included, *)
(* and a room has been cascaded, with no request issued                    *)
C10_Witness ==
  /\ nreq = 0
  /\ gone # {}
  /\ db.rooms = <<>>
  /\ \E P \in acked : /\ P.room_id = NoRoom
                      /\ P.image # NoFile
                      /\ now >= P.expires_at
                      /\ P \notin Posts(db)
                      /\ P.image \notin DOMAIN files

(* C11: a maintenance pass in which readdir, an unlink or the write of the *)
(* snapshot failed ends with the failure logged, and a later pass runs,    *)
(* after the startup pass as after a periodic one.                         *)
C11_FailedPassLoggedAndFollowed ==
  /\ []((proc[Sched].pc = "idle" /\ proc[Sched].seen # {}) => proc[Sched].res = Logged)
  /\ (proc[Sched].pc = "idle" /\ proc[Sched].seen # {}) ~> (proc[Sched].pc = "sweep")

(* C11 without the log: after a pass in which an operation failed, the     *)
(* scheduler is running and a later pass starts.                           *)
C11_SchedulerSurvives ==
  (proc[Sched].pc = "idle" /\ proc[Sched].seen # {}) ~> (listening /\ proc[Sched].pc = "sweep")

(* C12: no request handler lets a failed write of the snapshot escape: the *)
(* operation ends with an answer and the process keeps serving.            *)
C12_WriteFailureHandled == \A h \in Handlers : proc[h].pc # "unhandled"

(* C12 for POST /posts, the handler with a catch: a failed write is        *)
(* answered with 400 and the snapshot is left as it was.                   *)
C12_CreatePostWriteFailureHandled ==
  [][\A h \in Handlers :
       (proc[h].op = "createPost" /\ proc[h].pc = "write" /\ db' = db /\ proc'[h].pc # "write")
       => (proc'[h].pc = "done" /\ proc'[h].res = 400)]_vars

(* newest first, and among posts of one instant the later inserted first;  *)
(* ids are given out in the order of insertion                             *)
NewestFirst(list) ==
  \A i, j \in 1 .. Len(list) :
    i < j => \/ list[i].created_at > list[j].created_at
             \/ list[i].created_at = list[j].created_at /\ list[i].id > list[j].id

(* C13: the posts of every persisted snapshot and of every listPosts       *)
(* answer are in non-increasing createdAt order, posts of equal createdAt  *)
(* with the later inserted first, under every interleaving of createPost,  *)
(* deletePost and maintenance passes.                                      *)
C13_NewestFirst ==
  /\ NewestFirst(db.posts)
  /\ \A h \in Handlers : proc[h].op = "listPosts" => NewestFirst(proc[h].out)

(* a list answers two posts created at different instants *)
C13_Witness ==
  \E h \in Handlers :
    /\ proc[h].op = "listPosts" /\ proc[h].pc = "done" /\ proc[h].res = 200
    /\ Len(proc[h].out) = 2
    /\ proc[h].out[1].created_at > proc[h].out[2].created_at
    /\ Len(db.posts) = 2

(* a listPosts call is taken up in this step by handler h *)
ListCall(h) == proc[h].pc = "idle" /\ proc'[h].op = "listPosts"

(* the call of handler h answers in this step *)
ListAnswer(h) == proc[h].op = "listPosts" /\ proc[h].pc = "write" /\ proc'[h].pc = "done"

(* C14: the snapshot a listPosts call works on holds active posts only and *)
(* every active post of the main feed or of a live room of the snapshot it *)
(* loaded; the call answers 404 for a room that snapshot does not hold,    *)
(* and otherwise exactly the posts whose roomId is the one asked for,      *)
(* NoRoom being the main feed.                                             *)
C14_FeedPartition ==
  [][\A h \in Handlers :
       /\ ListCall(h) =>
            /\ \A p \in Posts(proc'[h].data) : p.expires_at > now /\ p \in Posts(db)
            /\ \A p \in Posts(db) :
                 (/\ p.expires_at > now
                  /\ \/ p.room_id = NoRoom
                     \/ \E r \in Rooms(db) : r.id = p.room_id /\ ~SpecDead(r, now))
                 => p \in Posts(proc'[h].data)
       /\ ListAnswer(h) =>
            LET R == proc[h].arg.room
                out == proc'[h].out
            IN IF R # NoRoom /\ \A r \in Rooms(proc[h].data) : r.id # R
               THEN proc'[h].res = 404 /\ out = <<>>
               ELSE /\ proc'[h].res = 200
                    /\ {out[i] : i \in 1 .. Len(out)}
                         = {Public(p) : p \in {q \in Posts(proc[h].data) : q.room_id = R}}
                    /\ Len(out) = Cardinality({q \in Posts(proc[h].data) : q.room_id = R})]_vars

(* the feed of a room is answered with the post of the room *)
C14_Witness ==
  \E h \in Handlers :
    /\ proc[h].op = "listPosts" /\ proc[h].pc = "done" /\ proc[h].res = 200
    /\ proc[h].arg.room # NoRoom
    /\ Len(proc[h].out) = 1
    /\ \E p \in Posts(db) : p.id = proc[h].out[1].id /\ p.room_id = proc[h].arg.room

(* the snapshot with other delete tokens and other storage paths *)
Scramble(data, token, path) ==
  [data EXCEPT !.posts = [i \in 1 .. Len(data.posts) |->
     [data.posts[i] EXCEPT !.delete_token = token, !.image_path = path]]]

(* C15: an answer of listPosts carries the public fields of a post only:   *)
(* neither the deleteToken nor the storage path, nor the value of any      *)
(* post's deleteToken under another name; the feeds of two snapshots that  *)
(* differ in deleteToken and image_path values only are the same; and the  *)
(* answer of the createPost that created a post is the only answer that    *)
(* carries its deleteToken.                                                *)
C15_TokenNeverListed ==
  /\ \A h \in Handlers :
       /\ proc[h].op = "listPosts" =>
            \A i \in 1 .. Len(proc[h].out) :
              /\ DOMAIN proc[h].out[i] = {"id", "len", "image", "created_at", "expires_at"}
              /\ \A f \in DOMAIN proc[h].out[i], P \in acked : proc[h].out[i][f] # P.delete_token
       /\ (proc[h].op = "createPost" /\ proc[h].pc = "done" /\ proc[h].res = 200) =>
            \E P \in acked : proc[h].out = <<Created(P)>> /\ P.id = proc[h].arg.id
       /\ proc[h].op \notin {"listPosts", "createPost"} => proc[h].out = <<>>
  /\ \A R \in RoomInputs, token \in {WrongToken, 1}, path \in {<<>>, <<"elsewhere", 1>>} :
       Feed(Scramble(db, token, path), R) = Feed(db, R)

(* a list answers an image post whose token the creation answer carried *)
C15_Witness ==
  \E h \in Handlers :
    /\ proc[h].op = "listPosts" /\ proc[h].pc = "done" /\ proc[h].res = 200
    /\ \E i \in 1 .. Len(proc[h].out) :
         /\ proc[h].out[i].image # NoFile
         /\ \E P \in Posts(db) : P.id = proc[h].out[i].id /\ P.image_path # <<>>

(* process p loads the snapshot and cleans it in this step, and goes on *)
Cleans(p) ==
  /\ proc[p].pc \in {"idle", "load"}
  /\ proc'[p].pc \in {"write", "sweep", "unlink"}
  /\ proc'[p].op # "ping"

(* C16: a cleanup run at time now drops every post with expiresAt <= now,  *)
(* its media file with it, and keeps every post with expiresAt > now that  *)
(* is in the main feed or in a live room; and a listPosts call answers     *)
(* posts of the snapshot it has cleaned only, so none with expiresAt <=    *)
(* the now of its cleanup.                                                 *)
C16_ExpiryInclusive ==
  [][/\ \A p \in Procs : Cleans(p) =>
          \A q \in Posts(db) :
            /\ q.expires_at <= now =>
                 /\ \A k \in Posts(proc'[p].data) : k.id # q.id
                 /\ q.image # NoFile => q.image \notin DOMAIN files'
            /\ (/\ q.expires_at > now
                /\ \/ q.room_id = NoRoom
                   \/ \E r \in Rooms(db) : r.id = q.room_id /\ ~SpecDead(r, now))
               => q \in Posts(proc'[p].data)
     /\ \A h \in Handlers : ListAnswer(h) =>
          \A i \in 1 .. Len(proc'[h].out) :
            \E q \in Posts(proc[h].data) : proc'[h].out[i] = Public(q)]_vars

(* C16 in the sqlite variant: a list answers the rows with expires_at >    *)
(* now, and the interval deletes the rows with expires_at <= now.          *)
C16_ExpiryInclusive_Sqlite ==
  [][/\ (sq.pc = "idle" /\ sq'.op = "listPosts") =>
          sq'.out = {SqPublic(row) : row \in {r \in tbl : r.expires_at > now}}
     /\ (tbl' # tbl /\ sq' = sq) => tbl' = {r \in tbl : r.expires_at > now}]_vars

(* a cleanup has run at the very instant a post of the snapshot expires,   *)
(* and has dropped it                                                      *)
C16_Witness ==
  \E p \in Procs :
    /\ proc[p].pc \in {"write", "sweep"}
    /\ \E q \in Posts(db) : q.expires_at = now /\ q \notin Posts(proc[p].data)
    /\ \E q \in Posts(db) : q.expires_at > now /\ q \in Posts(proc[p].data)

(* C17: a cleanup run at time now removes a room if and only if            *)
(* now - lastActiveAt >= grace: the room whose grace period ends at this   *)
(* very instant is removed, and a room with now - lastActiveAt < grace is  *)
(* kept.                                                                   *)
C17_RoomDeathBoundary ==
  [][\A p \in Procs : Cleans(p) =>
       \A r \in Rooms(db) :
         SpecDead(r, now) <=> (\A k \in Rooms(proc'[p].data) : k.id # r.id)]_vars

(* C17 off the boundary: a room with now - lastActiveAt > grace is removed *)
(* and a room with now - lastActiveAt < grace is kept.                     *)
C17_RoomDeathOffBoundary ==
  [][\A p \in Procs : Cleans(p) =>
       \A r \in Rooms(db) :
         /\ now - LastActive(r) > ROOM_EMPTY_GRACE_MS => \A k \in Rooms(proc'[p].data) : k.id # r.id
         /\ now - LastActive(r) < ROOM_EMPTY_GRACE_MS => \E k \in Rooms(proc'[p].data) : k.id = r.id]_vars

(* C18: the sweep of a maintenance pass deletes a file if and only if no   *)
(* active post of the snapshot the pass loaded refers to it and its age    *)
(* exceeds the orphan threshold: an unreferenced file at or under the      *)
(* threshold stays, and so does the file of an active post, however old.   *)
C18_OrphanSweep ==
  [][(proc[Sched].pc = "sweep" /\ proc'[Sched].pc = "write") =>
       \A f \in DOMAIN files :
         (f \notin DOMAIN files')
           <=> (/\ \A q \in Posts(db) : q.expires_at > now => q.image # f
                /\ now - files[f] > ONE_HOUR)]_vars

(* a sweep has deleted the old orphan and has kept the orphan whose age is *)
(* the threshold and the file, older than the threshold, of an active post *)
C18_Witness ==
  /\ proc[Sched].pc = "write"
  /\ ~listening
  /\ now - SweepMtime(5) = ONE_HOUR
  /\ DOMAIN files = {1, 5}
  /\ \E q \in Posts(db) : q.image = 1 /\ q.expires_at > now /\ now - files[1] > ONE_HOUR
  /\ \A q \in Posts(db) : q.image # 5

(* the ttl a body asks for is outside of one to sixty minutes *)
TtlOutOfBounds(raw) ==
  raw.kind # "absent" /\ (raw.n < MIN_TTL_MINUTES \/ raw.n > MAX_TTL_MINUTES)

ValidPost(p) ==
  /\ p.len > 0 \/ p.image # NoFile
  /\ p.len <= MaxContent
  /\ \E m \in MIN_TTL_MINUTES .. MAX_TTL_MINUTES : p.expires_at = p.created_at + m * ONE_MINUTE

(* createPost leaves its validation in this step *)
Validated(h) == proc[h].op = "createPost" /\ proc[h].pc = "load" /\ proc'[h].pc # "load"

(* C19: every post of the persisted snapshot has content or media, at most *)
(* 500 characters of content and expiresAt = createdAt + ttl with ttl from *)
(* 1 to 60 minutes; and a createPost without content and media, with more  *)
(* than 500 characters, or that asks for a ttl outside of 1 to 60 minutes  *)
(* is answered 400 and leaves the snapshot as it was.                      *)
C19_ValidPostsOnly ==
  [][/\ \A p \in Posts(db') : ValidPost(p)
     /\ \A h \in Handlers : Validated(h) =>
          LET a == proc[h].arg IN
          (\/ a.len = 0 /\ a.file = NoFile
           \/ a.len > MaxContent
           \/ TtlOutOfBounds(a.raw))
          => (proc'[h].pc = "done" /\ proc'[h].res = 400 /\ db' = db)]_vars

(* C19 for the bodies of multipart forms, whose fields are strings *)
C19_ValidPostsOnly_Forms ==
  [][/\ \A p \in Posts(db') : ValidPost(p)
     /\ \A h \in Handlers : (Validated(h) /\ proc[h].arg.raw.kind # "number") =>
          LET a == proc[h].arg IN
          (\/ a.len = 0 /\ a.file = NoFile
           \/ a.len > MaxContent
           \/ TtlOutOfBounds(a.raw))
          => (proc'[h].pc = "done" /\ proc'[h].res = 400 /\ db' = db)]_vars

(* C20: a room that is kept active is never removed: no write of the       *)
(* snapshot removes a room whose persisted lastActiveAt is less than the   *)
(* grace period ago, nor an active post of such a room, whatever requests  *)
(* and maintenance passes run beside the heartbeats and posts that keep    *)
(* the room active.                                                        *)
C20_ActiveRoomKept ==
  [][\A r \in Rooms(db) : ~SpecDead(r, now) =>
       /\ \E k \in Rooms(db') : k.id = r.id
       /\ \A p \in Posts(db) :
            (p.room_id = r.id /\ p.expires_at > now /\ p.id \notin gone')
            => \E q \in Posts(db') : q.id = p.id]_vars

PostIds(data) == {p.id : p \in Posts(data)}

RoomIds(data) == {r.id : r \in Rooms(data)}

(* handler h persists the room it has created in this step *)
RoomCreated(h, r) ==
  proc[h].op = "createRoom" /\ proc[h].pc = "write" /\ proc[h].arg.room = r /\ proc'[h].pc = "done"

(* C21: a post that was deleted with its token, has expired or was taken   *)
(* by the cascade of its room, and is gone from the persisted snapshot, is *)
(* in no later persisted snapshot; and a room that is not in the persisted *)
(* snapshot enters it only by the createRoom that made it, so that a room  *)
(* once removed does not come back.                                        *)
C21_NoResurrection ==
  [][/\ \A P \in acked :
          (P.id \notin PostIds(db) /\ (P.id \in gone \/ P.expires_at <= now))
          => P.id \notin PostIds(db')
     /\ \A r \in 1 .. nextRoom :
          (r \notin RoomIds(db) /\ r \in RoomIds(db')) => \E h \in Handlers : RoomCreated(h, r)]_vars

(* C21 for the authorized deletion alone: a post deleted with its token,   *)
(* and gone from the persisted snapshot, is in no later one.               *)
C21_DeletedStaysDeleted ==
  [][\A h \in Handlers :
       (proc[h].op = "deletePost" /\ proc[h].pc = "done" /\ proc[h].res = 200
        /\ proc[h].arg.id \notin PostIds(db))
       => proc[h].arg.id \notin PostIds(db')]_vars

(* C22: in every persisted snapshot the room of every post that has one is *)
(* in the snapshot too: a room and its posts leave it together, whatever   *)
(* operations overlap.                                                     *)
C22_PostsHaveTheirRoom ==
  \A p \in Posts(db) : p.room_id # NoRoom => p.room_id \in RoomIds(db)

(* a dead room has left the persisted snapshot, and with it a post of the  *)
(* room that had not expired                                               *)
C22_Witness ==
  /\ Quiescent
  /\ \E P \in acked :
       /\ P.room_id # NoRoom
       /\ P.expires_at > now
       /\ P.id \notin PostIds(db)
       /\ P.room_id \notin RoomIds(db)
       /\ P.image \notin DOMAIN files
====
